---- MODULE Spec2Model ----
(***************************************************************************)
(* Model of include/IRC.h: RefCountedBase (an intrusive, non-atomic        *)
(* reference counter with delete-on-zero) and IntrusiveRefCntPtr (the      *)
(* handle that drives the counter by RAII).                                *)
(*                                                                         *)
(* Objects are identities 1..NumObjs, created by `new` outside the header. *)
(* Handles live in slots 1..NumHandles; slot Tmp is the by-value parameter *)
(* S of operator=, which exists only inside that call.  Every handle       *)
(* operation is a function from machine state to machine state, composed   *)
(* exactly as the header composes them (operator= is parameter             *)
(* construction, then swap, then the parameter's destructor).              *)
(*                                                                         *)
(* last, pre and calls are history variables describing one operation:     *)
(* which one it was, the state it started in and the Retain / Release /    *)
(* delete calls it made.  A run records its final operation only (any      *)
(* operation of any run can be that one), so the history does not multiply *)
(* the reachable states of the program itself.                             *)
(***************************************************************************)
EXTENDS Integers, Sequences, FiniteSets, TLC

\* ---------------------------------------------------------------- bounds
NumHandles == 3
NumObjs == 2
\* Width of `unsigned ref_cnt`, scaled down from 32 bits so that the
\* modulus is representable; no run below holds 2^CounterBits handles.
CounterBits == 3
\* How many references may be handed off by resetWithoutRelease in one run.
MaxHandoffs == 1
\* How many handle operations the threads start in one run.
MaxOps == 3

Null == 0
Tmp == 0
Handles == 1..NumHandles
Slots == Handles \cup {Tmp}
Objs == 1..NumObjs
\* The Derived part given to the o-th allocated object: objects 1 and 2
\* are built with equal contents, object 3 with different contents, ...
PayloadOf(o) == (o + 1) \div 2
Ptrs == Objs \cup {Null}
Threads == {"t1", "t2"}
CounterMod == 2 ^ CounterBits

VARIABLES
  Obj,        \* Obj[h]: the T* stored in handle slot h
  live,       \* live[h]: slot h holds a constructed, not yet destroyed handle
  ref_cnt,    \* ref_cnt[o]: RefCountedBase::ref_cnt of object o
  status,     \* status[o]: "none" (not yet allocated), "live", "destroyed"
  payload,    \* payload[o]: the Derived part of object o
  dtor_runs,  \* dtor_runs[o]: how many times `delete` ran on o
  err,        \* "none", "assert" (assert in Release failed), "uaf"
  ndebug,     \* the build defines NDEBUG: assert() expands to nothing
  calls,      \* Retain/Release/delete calls made by the recorded operation
  last,       \* the recorded operation and its arguments (NoOp: none yet)
  ret,        \* what the recorded operation returned, if it returns a value
  pre,        \* machine state in which the recorded operation started
  thr,        \* thr[t]: where thread t is inside Retain / Release, and the
              \* counter value it has read
  lost,       \* some thread wrote the counter from a value read before
              \* another thread's write: that write's update is lost
  started     \* how many handle operations the threads have started

vars ==
  <<Obj, live, ref_cnt, status, payload, dtor_runs, err, ndebug, calls, last,
    ret, pre, thr, lost, started>>

\* The machine state as one value, so that operations compose.
Cur ==
  [Obj |-> Obj, live |-> live, ref_cnt |-> ref_cnt, status |-> status,
   payload |-> payload, dtor_runs |-> dtor_runs, err |-> err,
   ndebug |-> ndebug, calls |-> calls]

\* State in which an operation starts: the call log is per operation.
Begin == [Cur EXCEPT !.calls = <<>>]

Call(f, o, c) == [fn |-> f, obj |-> o, cnt |-> c]

\* ------------------------------------------------------- RefCountedBase
\* RefCountedBase(): ref_cnt(0); the object is allocated by the caller.
RefCountedBase(s, o, v) ==
  [s EXCEPT !.status[o] = "live", !.ref_cnt[o] = 0, !.payload[o] = v]

\* Slip: the copy constructor is left to the compiler, which copies ref_cnt.
CopyObject_CopiesCounter(s, o, src) ==
  [s EXCEPT !.status[o] = "live", !.ref_cnt[o] = s.ref_cnt[src],
            !.payload[o] = s.payload[src]]

\* RefCountedBase(const RefCountedBase &) : ref_cnt(0) {}, run by Derived's
\* copy constructor, which copies Derived's own members.
CopyObject(s, o, src) ==
  [s EXCEPT !.status[o] = "live", !.ref_cnt[o] = 0,
            !.payload[o] = s.payload[src]]

\* The class declares no operator=, so the compiler provides the copy
\* assignment: it assigns every member, ref_cnt included, and Derived's
\* assignment assigns Derived's own members.
AssignObject(s, dst, src) ==
  [s EXCEPT !.ref_cnt[dst] = s.ref_cnt[src], !.payload[dst] = s.payload[src]]

\* Slip: a counter that stops at its largest value instead of wrapping.
Retain_Saturating(s, o) ==
  IF s.err # "none" THEN s
  ELSE IF s.status[o] # "live" THEN [s EXCEPT !.err = "uaf"]
  ELSE [s EXCEPT !.ref_cnt[o] = IF @ = CounterMod - 1 THEN @ ELSE @ + 1,
                 !.calls = Append(@, Call("Retain", o, s.ref_cnt[o]))]

\* void Retain() const { ++ref_cnt; }
Retain(s, o) ==
  IF s.err # "none" THEN s
  ELSE IF s.status[o] # "live" THEN [s EXCEPT !.err = "uaf"]
  ELSE [s EXCEPT !.ref_cnt[o] = (@ + 1) % CounterMod,
                 !.calls = Append(@, Call("Retain", o, s.ref_cnt[o]))]

\* delete static_cast<const Derived*>(this)
Delete(s, o) ==
  [s EXCEPT !.status[o] = "destroyed",
            !.dtor_runs[o] = @ + 1,
            !.calls = Append(@, Call("delete", o, s.ref_cnt[o]))]

\* Slip: `if (ref_cnt-- == 0)`, the old value is tested, nothing is deleted.
Release_PostDecrement(s, o) ==
  IF s.err # "none" THEN s
  ELSE IF s.status[o] # "live" THEN [s EXCEPT !.err = "uaf"]
  ELSE IF ~s.ndebug /\ ~(s.ref_cnt[o] > 0) THEN [s EXCEPT !.err = "assert"]
  ELSE [s EXCEPT !.ref_cnt[o] = (@ - 1) % CounterMod,
                 !.calls = Append(@, Call("Release", o, s.ref_cnt[o]))]

\* Slip: `assert(ref_cnt >= 0)`, which an unsigned counter always passes.
Release_AssertGE(s, o) ==
  IF s.err # "none" THEN s
  ELSE IF s.status[o] # "live" THEN [s EXCEPT !.err = "uaf"]
  ELSE LET t == [s EXCEPT !.ref_cnt[o] = (@ - 1) % CounterMod,
                          !.calls = Append(@, Call("Release", o, s.ref_cnt[o]))]
       IN IF t.ref_cnt[o] = 0 THEN Delete(t, o) ELSE t

\* void Release() const { assert(ref_cnt > 0); if (--ref_cnt == 0) delete ...; }
\* assert() aborts unless the build defines NDEBUG; then the unsigned
\* decrement of 0 wraps.
Release(s, o) ==
  IF s.err # "none" THEN s
  ELSE IF s.status[o] # "live" THEN [s EXCEPT !.err = "uaf"]
  ELSE IF ~s.ndebug /\ ~(s.ref_cnt[o] > 0) THEN [s EXCEPT !.err = "assert"]
  ELSE LET t == [s EXCEPT !.ref_cnt[o] = (@ - 1) % CounterMod,
                          !.calls = Append(@, Call("Release", o, s.ref_cnt[o]))]
       IN IF t.ref_cnt[o] = 0 THEN Delete(t, o) ELSE t

\* ----------------------------------------------- IntrusiveRefCntPtrInfo
Info_retain(s, o) == Retain(s, o)
Info_release(s, o) == Release(s, o)

\* --------------------------------------------------- IntrusiveRefCntPtr
\* private: void retain() { if (Obj) Info::retain(Obj); }
retain(s, h) == IF s.Obj[h] # Null THEN Info_retain(s, s.Obj[h]) ELSE s
\* private: void release() { if (Obj) Info::release(Obj); }
release(s, h) == IF s.Obj[h] # Null THEN Info_release(s, s.Obj[h]) ELSE s

\* T* get() const { return Obj; }
get(s, h) == s.Obj[h]
\* operator bool() const { return Obj; }
bool(s, h) == s.Obj[h] # Null

\* Storage for slot h comes into existence holding pointer p (the
\* mem-initializer Obj(p) of every constructor).
InitObj(s, h, p) == [s EXCEPT !.live[h] = TRUE, !.Obj[h] = p]

\* explicit IntrusiveRefCntPtr() : Obj(nullptr) {}
DefaultCtor(s, h) == InitObj(s, h, Null)
\* Slip: the raw pointer is adopted without retain().
RawCtor_Adopt(s, h, p) == InitObj(s, h, p)
\* IntrusiveRefCntPtr(T* obj) : Obj(obj) { retain(); }
RawCtor(s, h, p) == retain(InitObj(s, h, p), h)
\* Slip: the copy forgets retain().
CopyCtor_NoRetain(s, d, src) == InitObj(s, d, s.Obj[src])
\* IntrusiveRefCntPtr(const IntrusiveRefCntPtr& S) : Obj(S.Obj) { retain(); }
CopyCtor(s, d, src) == retain(InitObj(s, d, s.Obj[src]), d)
\* Slip: the source keeps its pointer.
MoveCtor_KeepSource(s, d, src) == InitObj(s, d, s.Obj[src])
\* IntrusiveRefCntPtr(IntrusiveRefCntPtr&& S) : Obj(S.Obj) { S.Obj = nullptr; }
MoveCtor(s, d, src) == [InitObj(s, d, s.Obj[src]) EXCEPT !.Obj[src] = Null]
\* Slip: the converting move leaves the source its pointer.
MoveConvertCtor_KeepSource(s, d, src) == InitObj(s, d, get(s, src))
\* template <class X> IntrusiveRefCntPtr(IntrusiveRefCntPtr<X>&& S) : Obj(S.get()) { S.Obj = 0; }
MoveConvertCtor(s, d, src) == [InitObj(s, d, get(s, src)) EXCEPT !.Obj[src] = Null]
\* Slip: the converting copy forgets retain().
CopyConvertCtor_NoRetain(s, d, src) == InitObj(s, d, get(s, src))
\* template <class X> IntrusiveRefCntPtr(const IntrusiveRefCntPtr<X>& S) : Obj(S.get()) { retain(); }
CopyConvertCtor(s, d, src) == retain(InitObj(s, d, get(s, src)), d)

\* ~IntrusiveRefCntPtr() { release(); }   The slot's storage ends with it.
Dtor(s, h) ==
  LET t == release(s, h)
  IN IF t.err # "none" THEN t ELSE [t EXCEPT !.live[h] = FALSE, !.Obj[h] = Null]

\* Slip: no temporary, other.Obj is overwritten before it is read.
swap_NoTmp(s, h, other) ==
  LET s1 == [s EXCEPT !.Obj[other] = s.Obj[h]]
  IN [s1 EXCEPT !.Obj[h] = s1.Obj[other]]

\* void swap(IntrusiveRefCntPtr& other)
swap(s, h, other) ==
  LET tmp == s.Obj[other]
      s1 == [s EXCEPT !.Obj[other] = s.Obj[h]]
  IN [s1 EXCEPT !.Obj[h] = tmp]

\* Slip: reset() releases but keeps the pointer.
reset_KeepPtr(s, h) == release(s, h)

\* void reset() { release(); Obj = nullptr; }
reset(s, h) ==
  LET t == release(s, h)
  IN IF t.err # "none" THEN t ELSE [t EXCEPT !.Obj[h] = Null]

\* Slip: resetWithoutRelease() does nothing.
resetWithoutRelease_KeepPtr(s, h) == s

\* Slip: resetWithoutRelease() releases after all.
resetWithoutRelease_Releases(s, h) ==
  LET t == release(s, h)
  IN IF t.err # "none" THEN t ELSE [t EXCEPT !.Obj[h] = Null]

\* void resetWithoutRelease() { Obj = 0; }
resetWithoutRelease(s, h) == [s EXCEPT !.Obj[h] = Null]

\* IntrusiveRefCntPtr& operator=(IntrusiveRefCntPtr S) { swap(S); return *this; }
\* s already holds the parameter S in slot Tmp; S is destroyed on return.
AssignBody(s, h) == Dtor(swap(s, h, Tmp), Tmp)
\* Slip: release what *this holds, then take the new pointer and retain it.
CopyAssign_ReleaseFirst(s, h, a) ==
  retain([release(s, h) EXCEPT !.Obj[h] = s.Obj[a]], h)
\* Slip: plain pointer assignment, what *this held is never released.
CopyAssign_NoReleaseOld(s, h, a) == retain([s EXCEPT !.Obj[h] = s.Obj[a]], h)
\* h = a;             S is copy-constructed from a
CopyAssign(s, h, a) == AssignBody(CopyCtor(s, Tmp, a), h)
\* h = std::move(a);  S is move-constructed from a
MoveAssign(s, h, a) == AssignBody(MoveCtor(s, Tmp, a), h)
\* h = p;             S is constructed from the raw pointer p
RawAssign(s, h, p) == AssignBody(RawCtor(s, Tmp, p), h)

\* ------------------------------------------------- comparison operators
\* Slip: handles compare the objects' contents instead of their identity.
EqHH_ByContent(s, a, b) ==
  IF get(s, a) = Null \/ get(s, b) = Null THEN get(s, a) = get(s, b)
  ELSE s.payload[get(s, a)] = s.payload[get(s, b)]
\* operator==(const IntrusiveRefCntPtr<T>&, const IntrusiveRefCntPtr<U>&)
EqHH(s, a, b) == get(s, a) = get(s, b)
NeHH(s, a, b) == get(s, a) # get(s, b)
\* operator==(const IntrusiveRefCntPtr<T>&, U*)
EqHP(s, a, p) == get(s, a) = p
NeHP(s, a, p) == get(s, a) # p
\* operator==(T*, const IntrusiveRefCntPtr<U>&)
EqPH(s, p, b) == p = get(s, b)
NePH(s, p, b) == p # get(s, b)
\* operator==(std::nullptr_t, const IntrusiveRefCntPtr<T>& B) { return !B; }
EqNH(s, b) == ~bool(s, b)
\* operator==(const IntrusiveRefCntPtr<T>& A, std::nullptr_t B) { return B == A; }
EqHN(s, a) == EqNH(s, a)
\* operator!=(std::nullptr_t A, const IntrusiveRefCntPtr<T>& B) { return !(A == B); }
NeNH(s, b) == ~EqNH(s, b)
\* operator!=(const IntrusiveRefCntPtr<T>& A, std::nullptr_t B) { return !(A == B); }
NeHN(s, a) == ~EqHN(s, a)

\* ------------------------------------------------------------- actions
NoOp == [op |-> "none", h |-> Tmp, src |-> Tmp, ptr |-> Null]
\* The state before anything was constructed.
NoPre ==
  [Obj |-> [h \in Slots |-> Null], live |-> [h \in Slots |-> FALSE],
   ref_cnt |-> [o \in Objs |-> 0], status |-> [o \in Objs |-> "none"],
   payload |-> [o \in Objs |-> PayloadOf(o)], dtor_runs |-> [o \in Objs |-> 0],
   err |-> "none", ndebug |-> FALSE, calls |-> <<>>]
Op(o, h, src, p) == [op |-> o, h |-> h, src |-> src, ptr |-> p]

\* A thread outside Retain / Release.
Idle == [pc |-> "idle", reg |-> 0, h |-> Tmp, obj |-> Null, freed |-> FALSE]

\* One operation of the program: from Begin to t.  Either the run goes on
\* unrecorded, or this operation is recorded as the run's final one.
\* r is the value the operation returns (Null when it returns none).
StepRet(t, l, r) ==
  /\ err = "none"
  /\ last = NoOp
  /\ Obj' = t.Obj /\ live' = t.live /\ ref_cnt' = t.ref_cnt
  /\ status' = t.status /\ payload' = t.payload /\ dtor_runs' = t.dtor_runs
  /\ err' = t.err
  /\ ndebug' = ndebug
  /\ UNCHANGED <<thr, lost, started>>
  /\ \/ last' = NoOp /\ pre' = NoPre /\ calls' = <<>> /\ ret' = Null
     \/ last' = l /\ pre' = Begin /\ calls' = t.calls /\ ret' = r

Step(t, l) == StepRet(t, l, Null)

\* Pointers a caller may pass: null, or an object that exists.
ValidPtrs == {Null} \cup {o \in Objs : status[o] = "live"}

\* o = new Derived(v).  Identities are handed out in order of allocation.
New ==
  \E o \in Objs :
    /\ status[o] = "none"
    /\ \A q \in Objs : q < o => status[q] # "none"
    /\ Step(RefCountedBase(Begin, o, PayloadOf(o)), Op("new", Tmp, Tmp, o))

ADefaultCtor ==
  \E h \in Handles : ~live[h] /\ Step(DefaultCtor(Begin, h), Op("DefaultCtor", h, Tmp, Null))

ARawCtor ==
  \E h \in Handles, p \in ValidPtrs :
    ~live[h] /\ Step(RawCtor(Begin, h, p), Op("RawCtor", h, Tmp, p))

ACopyCtor ==
  \E d \in Handles, a \in Handles :
    ~live[d] /\ live[a] /\ Step(CopyCtor(Begin, d, a), Op("CopyCtor", d, a, Null))

AMoveCtor ==
  \E d \in Handles, a \in Handles :
    ~live[d] /\ live[a] /\ Step(MoveCtor(Begin, d, a), Op("MoveCtor", d, a, Null))

ACopyConvertCtor ==
  \E d \in Handles, a \in Handles :
    ~live[d] /\ live[a]
    /\ Step(CopyConvertCtor(Begin, d, a), Op("CopyConvertCtor", d, a, Null))

AMoveConvertCtor ==
  \E d \in Handles, a \in Handles :
    ~live[d] /\ live[a]
    /\ Step(MoveConvertCtor(Begin, d, a), Op("MoveConvertCtor", d, a, Null))

ACopyAssign ==
  \E h \in Handles, a \in Handles :
    live[h] /\ live[a] /\ Step(CopyAssign(Begin, h, a), Op("CopyAssign", h, a, Null))

AMoveAssign ==
  \E h \in Handles, a \in Handles :
    live[h] /\ live[a] /\ Step(MoveAssign(Begin, h, a), Op("MoveAssign", h, a, Null))

ARawAssign ==
  \E h \in Handles, p \in ValidPtrs :
    live[h] /\ Step(RawAssign(Begin, h, p), Op("RawAssign", h, Tmp, p))

ASwap ==
  \E h \in Handles, other \in Handles :
    live[h] /\ live[other] /\ Step(swap(Begin, h, other), Op("swap", h, other, Null))

AReset ==
  \E h \in Handles : live[h] /\ Step(reset(Begin, h), Op("reset", h, Tmp, Null))

\* References taken by Retain that no live handle accounts for any more.
HandlesOn(s, o) == {h \in Slots : s.live[h] /\ s.Obj[h] = o}
RECURSIVE HandedOffUpTo(_)
HandedOffUpTo(o) ==
  IF o = 0 THEN 0
  ELSE HandedOffUpTo(o - 1)
       + (IF status[o] = "live"
          THEN ref_cnt[o] - Cardinality(HandlesOn(Cur, o)) ELSE 0)
HandedOff == HandedOffUpTo(NumObjs)

AResetWithoutRelease ==
  \E h \in Handles :
    /\ live[h]
    /\ Obj[h] # Null => HandedOff < MaxHandoffs
    /\ Step(resetWithoutRelease(Begin, h), Op("resetWithoutRelease", h, Tmp, Null))

ADtor ==
  \E h \in Handles : live[h] /\ Step(Dtor(Begin, h), Op("Dtor", h, Tmp, Null))

Init ==
  /\ Obj = NoPre.Obj
  /\ live = NoPre.live
  /\ ref_cnt = NoPre.ref_cnt
  /\ status = NoPre.status
  /\ payload = NoPre.payload
  /\ dtor_runs = NoPre.dtor_runs
  /\ err = "none"
  /\ ndebug = FALSE
  /\ calls = <<>>
  /\ last = NoOp
  /\ ret = Null
  /\ pre = NoPre
  /\ thr = [t \in Threads |-> Idle]
  /\ lost = FALSE
  /\ started = 0

\* Handle operations only: no resetWithoutRelease, no direct Retain/Release.
Next ==
  \/ New
  \/ ADefaultCtor
  \/ ARawCtor
  \/ ACopyCtor
  \/ AMoveCtor
  \/ ACopyConvertCtor
  \/ AMoveConvertCtor
  \/ ACopyAssign
  \/ AMoveAssign
  \/ ARawAssign
  \/ ASwap
  \/ AReset
  \/ ADtor

Spec == Init /\ [][Next]_vars

\* Handle operations plus the ownership hand-off resetWithoutRelease.
NextHandoff == Next \/ AResetWithoutRelease

SpecHandoff == Init /\ [][NextHandoff]_vars

\* ----------------------------------------- direct Retain / Release calls
\* The state after `o = new Derived`, k handles built from o and c - k
\* further Retain calls on o, in a build with (nd) or without NDEBUG.
OneObject(k, c, nd) ==
  [NoPre EXCEPT !.status[1] = "live",
                !.ref_cnt[1] = c,
                !.live = [h \in Slots |-> h \in 1..k],
                !.Obj = [h \in Slots |-> IF h \in 1..k THEN 1 ELSE Null],
                !.ndebug = nd]

InitFrom(s) ==
  /\ Obj = s.Obj
  /\ live = s.live
  /\ ref_cnt = s.ref_cnt
  /\ status = s.status
  /\ payload = s.payload
  /\ dtor_runs = s.dtor_runs
  /\ err = "none"
  /\ ndebug = s.ndebug
  /\ calls = <<>>
  /\ last = NoOp
  /\ ret = Null
  /\ pre = NoPre
  /\ thr = [t \in Threads |-> Idle]
  /\ lost = FALSE
  /\ started = 0

\* One object, any number of handles on it, either build.
InitDirect ==
  \E k \in 0..NumHandles, nd \in BOOLEAN : InitFrom(OneObject(k, k, nd))

\* p->Retain() on a raw pointer, outside any handle.
ADirectRetain ==
  \E o \in Objs :
    /\ status[o] = "live"
    /\ HandedOff < MaxHandoffs
    /\ Step(Retain(Begin, o), Op("Retain", Tmp, Tmp, o))

\* p->Release() on a raw pointer, outside any handle.
ADirectRelease ==
  \E o \in Objs :
    /\ status[o] = "live"
    /\ HandedOff <= MaxHandoffs /\ HandedOff + MaxHandoffs >= 0
    /\ Step(Release(Begin, o), Op("Release", Tmp, Tmp, o))

\* Objects shared through handles and through raw pointers.
NextDirect ==
  \/ ARawCtor
  \/ ADtor
  \/ ADirectRetain
  \/ ADirectRelease

SpecDirect == InitDirect /\ [][NextDirect]_vars

\* ------------------------------------------------ copies of host objects
\* T& operator*() const { return *Obj; }   The object the handle designates.
Deref(s, h) == s.Obj[h]

\* o = new Derived(*p)
ACopyNew ==
  \E o \in Objs, src \in Objs :
    /\ status[o] = "none"
    /\ \A q \in Objs : q < o => status[q] # "none"
    /\ status[src] = "live"
    /\ Step(CopyObject(Begin, o, src), Op("CopyNew", Tmp, Tmp, o))

\* *h1 = *h2.  A run is followed through its first such assignment (while
\* every counter still is the number of handles on its object) and on.
AAssignObj ==
  \E h1 \in Handles, h2 \in Handles :
    /\ \A o \in Objs :
         status[o] = "live" => ref_cnt[o] = Cardinality(HandlesOn(Cur, o))
    /\ live[h1] /\ live[h2] /\ bool(Cur, h1) /\ bool(Cur, h2)
    /\ status[Deref(Cur, h1)] = "live" /\ status[Deref(Cur, h2)] = "live"
    /\ Deref(Cur, h1) # Deref(Cur, h2)
    /\ Step(AssignObject(Begin, Deref(Cur, h1), Deref(Cur, h2)),
            Op("AssignObj", h1, h2, Deref(Cur, h1)))

\* Handles next to copies of the objects they share.
NextObjects ==
  \/ New
  \/ ACopyNew
  \/ AAssignObj
  \/ ARawCtor
  \/ ACopyCtor
  \/ ADtor

SpecObjects == Init /\ [][NextObjects]_vars

\* ------------------------------------------------------- counter wrap-around
\* One object with k handles on it and any counter value Retain calls can
\* have brought it to.
InitWrap ==
  \E k \in 0..NumHandles, c \in 0..(CounterMod - 1), nd \in BOOLEAN :
    k <= c /\ InitFrom(OneObject(k, c, nd))

\* o->Retain(), as often as the caller likes.
AWrapRetain ==
  \E o \in Objs :
    status[o] = "live" /\ Step(Retain(Begin, o), Op("Retain", Tmp, Tmp, o))

NextWrap ==
  \/ AWrapRetain
  \/ ARawCtor
  \/ ACopyCtor
  \/ ADtor

SpecWrap == InitWrap /\ [][NextWrap]_vars

\* ------------------------------------------------------------ observers
\* Slip: an observer that takes a reference of its own.
Const_Retains(s, h) == retain(s, h)
\* The state after a const member of handle h that only returns Obj (or
\* *Obj) has run: it has no statement that writes.
Const(s, h) == s

\* T& operator*() const { return *Obj; }  -- the object referred to
Star(s, h) == s.Obj[h]
\* T* operator->() const { return Obj; }
Arrow(s, h) == s.Obj[h]

ComparisonOps ==
  {"EqHH", "NeHH", "EqHP", "NeHP", "EqPH", "NePH", "EqNH", "EqHN", "NeNH", "NeHN"}
ObserverOps == {"get", "bool", "Star", "Arrow"} \cup ComparisonOps

\* The value comparison k returns for handles a, b and raw pointer p.
Compare(k, s, a, b, p) ==
  CASE k = "EqHH" -> EqHH(s, a, b)
    [] k = "NeHH" -> NeHH(s, a, b)
    [] k = "EqHP" -> EqHP(s, a, p)
    [] k = "NeHP" -> NeHP(s, a, p)
    [] k = "EqPH" -> EqPH(s, p, b)
    [] k = "NePH" -> NePH(s, p, b)
    [] k = "EqNH" -> EqNH(s, b)
    [] k = "EqHN" -> EqHN(s, a)
    [] k = "NeNH" -> NeNH(s, b)
    [] k = "NeHN" -> NeHN(s, a)

AGet ==
  \E h \in Handles :
    live[h] /\ StepRet(Const(Begin, h), Op("get", h, Tmp, Null), get(Begin, h))

ABool ==
  \E h \in Handles :
    live[h] /\ StepRet(Const(Begin, h), Op("bool", h, Tmp, Null), bool(Begin, h))

\* Precondition of operator*: the handle is not null.
AStar ==
  \E h \in Handles :
    /\ live[h] /\ Obj[h] # Null
    /\ StepRet(Const(Begin, h), Op("Star", h, Tmp, Null), Star(Begin, h))

AArrow ==
  \E h \in Handles :
    live[h] /\ StepRet(Const(Begin, h), Op("Arrow", h, Tmp, Null), Arrow(Begin, h))

\* The operands comparison k does not have are left at a fixed value.
ACompare ==
  \E k \in ComparisonOps, a \in Handles, b \in Handles, p \in ValidPtrs :
    /\ live[a] /\ live[b]
    /\ k \notin {"EqHH", "NeHH"} => a = b
    /\ k \notin {"EqHP", "NeHP", "EqPH", "NePH"} => p = Null
    /\ StepRet(Const(Const(Begin, a), b), Op(k, a, b, p),
               Compare(k, Begin, a, b, p))

NextObservers ==
  \/ New
  \/ ARawCtor
  \/ ACopyCtor
  \/ ADtor
  \/ AGet
  \/ ABool
  \/ AStar
  \/ AArrow
  \/ ACompare

SpecObservers == Init /\ [][NextObservers]_vars

\* ---------------------------------------------------- unsynchronized threads
\* ref_cnt is a plain unsigned.  The copy constructor reads S.Obj and
\* then calls Retain(), which is a load and a store.  Release() is
\*   assert(ref_cnt > 0);  if (--ref_cnt == 0) delete ...;
\* a load for the assertion, a load and a store for --ref_cnt, and the
\* comparison with 0, which reads the counter again or uses the value
\* just stored, as the build has it.  Threads interleave between any two
\* of these.
Quiescent == \A t \in Threads : thr[t].pc = "idle"
Busy == {thr[t].h : t \in {u \in Threads : thr[u].pc # "idle"}}

\* Thread t touches the memory of object o after o was deleted: one
\* outcome is that the program stops there.  The other outcome, in the
\* actions below, is that the thread goes on with whatever the freed
\* memory holds: `delete` leaves any value in the counter's place.
Fault(t, o) ==
  /\ status[o] # "live"
  /\ err' = "uaf"
  /\ thr' = [thr EXCEPT ![t] = Idle]
  /\ UNCHANGED <<Obj, live, ref_cnt, status, payload, dtor_runs, ndebug,
                 calls, last, ret, pre, lost, started>>

\* Thread t starts IntrusiveRefCntPtr d(a): the mem-initializer Obj(S.Obj)
\* reads the source's pointer.  Nothing of the object is touched yet.
TCopyBegin(t) ==
  \E d \in Handles, a \in Handles :
    /\ err = "none" /\ thr[t].pc = "idle" /\ started < MaxOps
    /\ ~live[d] /\ d \notin Busy
    /\ live[a] /\ Obj[a] # Null
    /\ live' = [live EXCEPT ![d] = TRUE]
    /\ Obj' = [Obj EXCEPT ![d] = Obj[a]]
    /\ thr' = [thr EXCEPT ![t] = [pc |-> "retain_load", reg |-> 0, h |-> d,
                                  obj |-> Obj[a], freed |-> FALSE]]
    /\ started' = started + 1
    /\ UNCHANGED <<ref_cnt, status, payload, dtor_runs, err, ndebug, calls,
                   last, ret, pre, lost>>

\* retain() -> Retain(): ++ref_cnt loads the counter.
TRetainLoad(t) ==
  /\ err = "none" /\ thr[t].pc = "retain_load"
  /\ \/ Fault(t, thr[t].obj)
     \/ /\ thr' = [thr EXCEPT ![t].pc = "retain",
                              ![t].reg = ref_cnt[thr[t].obj],
                              ![t].freed = (status[thr[t].obj] # "live")]
        /\ UNCHANGED <<Obj, live, ref_cnt, status, payload, dtor_runs, err,
                       ndebug, calls, last, ret, pre, lost, started>>

\* Slip: the loaded value is stored back unchanged.
IncrementOf_Same(reg) == reg

\* What ++ref_cnt stores after having loaded reg.
IncrementOf(reg) == (reg + 1) % CounterMod

\* What --ref_cnt stores after having loaded reg.
DecrementOf(reg) == (reg - 1) % CounterMod

\* Thread t stores to the counter of o a value computed from thr[t].reg:
\* does that store undo another thread's store?  On a live object, when
\* the counter is no longer what t loaded; on a deleted object, when t
\* loaded before the deletion (the deleting thread stored in between).
Stale(t, o) ==
  IF status[o] = "live" THEN ref_cnt[o] # thr[t].reg ELSE ~thr[t].freed

\* Thread t finishes Retain(): the incremented value is stored.
TRetainWrite(t) ==
  /\ err = "none" /\ thr[t].pc = "retain"
  /\ \/ Fault(t, thr[t].obj)
     \/ /\ ref_cnt' = [ref_cnt EXCEPT ![thr[t].obj] = IncrementOf(thr[t].reg)]
        /\ lost' = (lost \/ Stale(t, thr[t].obj))
        /\ thr' = [thr EXCEPT ![t] = Idle]
        /\ UNCHANGED <<Obj, live, status, payload, dtor_runs, err, ndebug,
                       calls, last, ret, pre, started>>

\* Thread t starts ~IntrusiveRefCntPtr on h: release() finds its own Obj
\* non-null and Release() evaluates assert(ref_cnt > 0).
TDtorBegin(t) ==
  \E h \in Handles :
    /\ err = "none" /\ thr[t].pc = "idle" /\ started < MaxOps
    /\ live[h] /\ h \notin Busy /\ Obj[h] # Null
    /\ \/ Fault(t, Obj[h])
       \/ /\ IF ~ndebug /\ ~(ref_cnt[Obj[h]] > 0)
             THEN err' = "assert" /\ thr' = thr
             ELSE /\ err' = err
                  /\ thr' = [thr EXCEPT ![t] = [pc |-> "release_load", reg |-> 0,
                                                h |-> h, obj |-> Obj[h],
                                                freed |-> FALSE]]
          /\ started' = started + 1
          /\ UNCHANGED <<Obj, live, ref_cnt, status, payload, dtor_runs,
                         ndebug, calls, last, ret, pre, lost>>

\* --ref_cnt loads the counter.
TReleaseLoad(t) ==
  /\ err = "none" /\ thr[t].pc = "release_load"
  /\ \/ Fault(t, thr[t].obj)
     \/ /\ thr' = [thr EXCEPT ![t].pc = "release",
                              ![t].reg = ref_cnt[thr[t].obj],
                              ![t].freed = (status[thr[t].obj] # "live")]
        /\ UNCHANGED <<Obj, live, ref_cnt, status, payload, dtor_runs, err,
                       ndebug, calls, last, ret, pre, lost, started>>

\* --ref_cnt stores the decremented value.
TReleaseWrite(t) ==
  /\ err = "none" /\ thr[t].pc = "release"
  /\ \/ Fault(t, thr[t].obj)
     \/ /\ ref_cnt' = [ref_cnt EXCEPT ![thr[t].obj] = DecrementOf(thr[t].reg)]
        /\ lost' = (lost \/ Stale(t, thr[t].obj))
        /\ thr' = [thr EXCEPT ![t].pc = "release_test",
                              ![t].reg = DecrementOf(thr[t].reg)]
        /\ UNCHANGED <<Obj, live, status, payload, dtor_runs, err, ndebug,
                       calls, last, ret, pre, started>>

\* The handle thread t was destroying is gone and t is done.
HandleGone(t) ==
  /\ live' = [live EXCEPT ![thr[t].h] = FALSE]
  /\ Obj' = [Obj EXCEPT ![thr[t].h] = Null]
  /\ thr' = [thr EXCEPT ![t] = Idle]

\* `== 0` is evaluated on v, the value this thread stored or the value the
\* counter's memory holds now.  On 0 the object is deleted, which leaves
\* any value c in the counter's place.  Deleting an object another thread
\* deleted already runs its destructor again; then the thread goes on, or
\* the program is stopped inside `delete`.
TReleaseTest(t) ==
  /\ err = "none" /\ thr[t].pc = "release_test"
  /\ \/ Fault(t, thr[t].obj)
     \/ \E v \in {thr[t].reg, ref_cnt[thr[t].obj]} :
          /\ v # 0
          /\ HandleGone(t)
          /\ UNCHANGED <<ref_cnt, status, payload, dtor_runs, err, ndebug,
                         calls, last, ret, pre, lost, started>>
     \/ \E v \in {thr[t].reg, ref_cnt[thr[t].obj]}, c \in 0..(CounterMod - 1) :
          LET o == thr[t].obj
          IN /\ v = 0
             /\ status' = [status EXCEPT ![o] = "destroyed"]
             /\ dtor_runs' = [dtor_runs EXCEPT ![o] = @ + 1]
             /\ ref_cnt' = [ref_cnt EXCEPT ![o] = c]
             /\ \/ HandleGone(t) /\ err' = err
                \/ /\ status[o] = "destroyed"
                   /\ err' = "uaf"
                   /\ thr' \in {thr, [thr EXCEPT ![t] = Idle]}
                   /\ UNCHANGED <<Obj, live>>
             /\ UNCHANGED <<payload, ndebug, calls, last, ret, pre, lost,
                            started>>

\* One object with k handles on it, shared by the threads.
InitThreads ==
  \E k \in 1..NumHandles, nd \in BOOLEAN : InitFrom(OneObject(k, k, nd))

NextThreads ==
  \E t \in Threads :
    \/ TCopyBegin(t)
    \/ TRetainLoad(t)
    \/ TRetainWrite(t)
    \/ TDtorBegin(t)
    \/ TReleaseLoad(t)
    \/ TReleaseWrite(t)
    \/ TReleaseTest(t)

SpecThreads == InitThreads /\ [][NextThreads]_vars

TypeOK ==
  /\ Obj \in [Slots -> Ptrs]
  /\ live \in [Slots -> BOOLEAN]
  /\ ref_cnt \in [Objs -> 0..(CounterMod - 1)]
  /\ status \in [Objs -> {"none", "live", "destroyed"}]
  /\ err \in {"none", "assert", "uaf"}
  /\ err = "none" => ~live[Tmp] /\ Obj[Tmp] = Null
  /\ thr \in [Threads -> [pc : {"idle", "retain_load", "retain", "release_load", "release",
                                "release_test"},
                          reg : 0..(CounterMod - 1), h : Slots, obj : Ptrs,
                          freed : BOOLEAN]]
  /\ lost \in BOOLEAN
  /\ started \in 0..MaxOps

\* ------------------------------------------------------------ properties
\* What the formulas below compare: everything but the call log.
SameState(s, t) ==
  /\ s.Obj = t.Obj /\ s.live = t.live /\ s.ref_cnt = t.ref_cnt
  /\ s.status = t.status /\ s.payload = t.payload
  /\ s.dtor_runs = t.dtor_runs /\ s.err = t.err

\* Handles other than those in hs are as they were before the operation.
OthersUnchanged(hs) ==
  \A g \in Handles \ hs : Obj[g] = pre.Obj[g] /\ live[g] = pre.live[g]

\* Objects other than those in os are as they were before the operation.
ObjectsUnchanged(os) ==
  \A o \in Objs \ os :
    /\ ref_cnt[o] = pre.ref_cnt[o] /\ status[o] = pre.status[o]
    /\ dtor_runs[o] = pre.dtor_runs[o]

RemovingOps == {"Dtor", "reset", "CopyAssign", "MoveAssign", "RawAssign"}

\* C1: under handle operations only, an object is destroyed at most once,
\* never while a live handle still references it, and in exactly the
\* operation (handle destruction, reset or reassignment) that removes its
\* last handle, by the Release call that takes the counter from 1 to 0.
C1_DestroyedOnceAtLastRelease ==
  /\ err = "none"
  /\ \A o \in Objs :
       /\ dtor_runs[o] <= 1
       /\ (status[o] = "destroyed") = (dtor_runs[o] = 1)
       /\ status[o] = "destroyed" => HandlesOn(Cur, o) = {}
  /\ last.op # "none" =>
       \A o \in Objs :
         pre.status[o] = "live" =>
           /\ (status[o] = "destroyed")
                <=> (HandlesOn(pre, o) # {} /\ HandlesOn(Cur, o) = {})
           /\ status[o] = "destroyed" =>
                /\ last.op \in RemovingOps
                /\ pre.ref_cnt[o] = Cardinality(HandlesOn(pre, o))
                /\ Len(calls) >= 2
                /\ calls[Len(calls) - 1] = Call("Release", o, 1)
                /\ calls[Len(calls)] = Call("delete", o, 0)
                /\ \A i \in 1..(Len(calls) - 1) : calls[i].fn # "delete"

\* The last handle of an object went away in a reassignment, and the
\* object was destroyed there.
C1_Witness ==
  /\ last.op = "CopyAssign"
  /\ \E o \in Objs :
       /\ pre.status[o] = "live" /\ status[o] = "destroyed"
       /\ pre.Obj[last.h] = o /\ pre.ref_cnt[o] = 1

\* C2: under handle operations only, the counter of every live object
\* equals the number of live handles whose stored pointer is that object.
C2_CounterIsHandleCount ==
  \A o \in Objs :
    status[o] = "live" => ref_cnt[o] = Cardinality(HandlesOn(Cur, o))

C2_Witness ==
  \E o \in Objs, q \in Objs :
    /\ status[o] = "live" /\ ref_cnt[o] = 2
    /\ Cardinality(HandlesOn(Cur, o)) = 2
    /\ status[q] = "destroyed"

\* C3: constructing a handle from a non-null raw pointer calls Retain
\* exactly once (counter + 1, so a fresh object goes 0 -> 1 and k handles
\* built from the same pointer give counter k) and the handle references
\* that object; from a null pointer the handle is null and nothing is
\* called; a default-constructed handle is null and changes no counter.
C3_RawAndDefaultCtor ==
  /\ last.op = "RawCtor" =>
       /\ live[last.h] /\ get(Cur, last.h) = last.ptr
       /\ bool(Cur, last.h) = (last.ptr # Null)
       /\ OthersUnchanged({last.h})
       /\ ObjectsUnchanged({last.ptr})
       /\ last.ptr # Null =>
            /\ calls = <<Call("Retain", last.ptr, pre.ref_cnt[last.ptr])>>
            /\ ref_cnt[last.ptr] = pre.ref_cnt[last.ptr] + 1
            /\ status[last.ptr] = "live"
            /\ ref_cnt[last.ptr] = Cardinality(HandlesOn(Cur, last.ptr))
       /\ last.ptr = Null => calls = <<>>
  /\ last.op = "DefaultCtor" =>
       /\ live[last.h] /\ get(Cur, last.h) = Null /\ ~bool(Cur, last.h)
       /\ calls = <<>>
       /\ OthersUnchanged({last.h})
       /\ ObjectsUnchanged({})

\* A second handle was built from the same raw pointer: counter 2.
C3_Witness ==
  /\ last.op = "RawCtor" /\ last.ptr # Null
  /\ pre.ref_cnt[last.ptr] = 1 /\ ref_cnt[last.ptr] = 2

\* C4: copy construction (same-type or converting) from a non-null handle
\* gives a handle to the same object, leaves the source unchanged and adds
\* exactly 1 to that object's counter; from a null handle it gives a null
\* handle and changes no counter.  Destroying a non-null handle subtracts
\* exactly 1, so copy-then-destroy-the-copy restores the whole state.
C4_CopyCtorAndDtor ==
  /\ last.op \in {"CopyCtor", "CopyConvertCtor"} =>
       LET o == pre.Obj[last.src]
           back == Dtor(Begin, last.h)
       IN /\ live[last.h] /\ Obj[last.h] = o
          /\ OthersUnchanged({last.h})
          /\ ObjectsUnchanged({o})
          /\ o # Null =>
               /\ ref_cnt[o] = pre.ref_cnt[o] + 1 /\ status[o] = "live"
               /\ calls = <<Call("Retain", o, pre.ref_cnt[o])>>
               /\ back.ref_cnt[o] = ref_cnt[o] - 1
          /\ o = Null => calls = <<>>
          /\ SameState(back, pre)
  /\ last.op = "Dtor" =>
       LET o == pre.Obj[last.h]
       IN /\ ~live[last.h]
          /\ OthersUnchanged({last.h})
          /\ ObjectsUnchanged({o})
          /\ o # Null => ref_cnt[o] = pre.ref_cnt[o] - 1
          /\ o = Null => calls = <<>>

C4_Witness ==
  /\ last.op = "CopyConvertCtor"
  /\ pre.Obj[last.src] # Null
  /\ ref_cnt[pre.Obj[last.src]] = 2
  /\ \E g \in Handles \ {last.h, last.src} : live[g] /\ Obj[g] \notin {Null, Obj[last.h]}

\* C5: move construction (same-type or converting) makes the new handle
\* reference what the source referenced, makes the source null (bool is
\* false, get() is null), changes no counter and destroys nothing;
\* destroying the moved-from handle afterwards calls no Release.
C5_MoveCtor ==
  last.op \in {"MoveCtor", "MoveConvertCtor"} =>
    /\ live[last.h] /\ Obj[last.h] = pre.Obj[last.src]
    /\ live[last.src]
    /\ ~bool(Cur, last.src) /\ get(Cur, last.src) = Null
    /\ OthersUnchanged({last.h, last.src})
    /\ ObjectsUnchanged({})
    /\ calls = <<>>
    /\ LET after == Dtor(Begin, last.src)
       IN /\ after.calls = <<>>
          /\ after.ref_cnt = pre.ref_cnt /\ after.status = pre.status

C5_Witness ==
  /\ last.op = "MoveCtor"
  /\ pre.Obj[last.src] # Null
  /\ ref_cnt[Obj[last.h]] = 1

\* C6: after copy-assignment C = A, C references A's object and A is
\* unchanged; the counter of A's object is one higher unless C already
\* referenced it, the counter of the object C held before (if any and if
\* different) is one lower, and that object is destroyed iff this brought
\* its counter to 0.
C6_CopyAssign ==
  last.op = "CopyAssign" =>
    LET n == pre.Obj[last.src]
        old == pre.Obj[last.h]
    IN /\ Obj[last.h] = n /\ Obj[last.src] = n
       /\ live[last.h] /\ live[last.src]
       /\ OthersUnchanged({last.h})
       /\ ObjectsUnchanged({n, old})
       /\ old = n => ObjectsUnchanged({})
       /\ (n # Null /\ old # n) =>
            ref_cnt[n] = pre.ref_cnt[n] + 1 /\ status[n] = "live"
       /\ (old # Null /\ old # n) =>
            /\ ref_cnt[old] = pre.ref_cnt[old] - 1
            /\ (status[old] = "destroyed") <=> (ref_cnt[old] = 0)
            /\ status[old] \in {"live", "destroyed"}
       /\ (old = Null /\ n # Null) => ref_cnt[n] = pre.ref_cnt[n] + 1

\* C held the only reference to one object and is assigned another one.
C6_Witness ==
  /\ last.op = "CopyAssign"
  /\ pre.Obj[last.h] # Null /\ pre.Obj[last.src] # Null
  /\ pre.Obj[last.h] # pre.Obj[last.src]
  /\ status[pre.Obj[last.h]] = "destroyed"
  /\ ref_cnt[Obj[last.h]] = 2

\* C7: swap exchanges the stored pointers of the two handles (also when
\* one or both are null or both are the same handle) and calls neither
\* Retain nor Release: no counter changes, nothing is destroyed.
C7_Swap ==
  last.op = "swap" =>
    /\ Obj[last.h] = pre.Obj[last.src]
    /\ Obj[last.src] = pre.Obj[last.h]
    /\ OthersUnchanged({last.h, last.src})
    /\ live = pre.live
    /\ ObjectsUnchanged({})
    /\ calls = <<>>

C7_Witness ==
  /\ last.op = "swap"
  /\ pre.Obj[last.h] # Null /\ pre.Obj[last.src] # Null
  /\ pre.Obj[last.h] # pre.Obj[last.src]
  /\ Obj[last.h] = pre.Obj[last.src]

\* C8: reset() on a non-null handle calls Release exactly once (counter
\* - 1, object destroyed iff the counter reaches 0) and leaves the handle
\* null; on a null handle it calls nothing; a second reset() changes
\* nothing more.
C8_Reset ==
  last.op = "reset" =>
    LET o == pre.Obj[last.h]
        again == reset(Begin, last.h)
    IN /\ live[last.h] /\ Obj[last.h] = Null
       /\ OthersUnchanged({last.h})
       /\ ObjectsUnchanged({o})
       /\ o # Null =>
            /\ ref_cnt[o] = pre.ref_cnt[o] - 1
            /\ (status[o] = "destroyed") <=> (ref_cnt[o] = 0)
            /\ calls = IF ref_cnt[o] = 0
                       THEN <<Call("Release", o, 1), Call("delete", o, 0)>>
                       ELSE <<Call("Release", o, pre.ref_cnt[o])>>
       /\ o = Null => calls = <<>>
       /\ again.calls = <<>>
       /\ SameState(again, Cur)
       /\ SameState(reset(reset(pre, last.h), last.h), reset(pre, last.h))

C8_Witness ==
  /\ last.op = "reset"
  /\ pre.Obj[last.h] # Null
  /\ pre.ref_cnt[pre.Obj[last.h]] = 2
  /\ \E o \in Objs : status[o] = "destroyed"

\* C9: resetWithoutRelease() makes the handle null without calling
\* Release: the object's counter is unchanged, the object is not
\* destroyed, every other handle is unchanged, and destroying that handle
\* later calls no Release.
C9_ResetWithoutRelease ==
  last.op = "resetWithoutRelease" =>
    /\ live[last.h] /\ Obj[last.h] = Null /\ ~bool(Cur, last.h)
    /\ OthersUnchanged({last.h})
    /\ ObjectsUnchanged({})
    /\ calls = <<>>
    /\ LET after == Dtor(Begin, last.h)
       IN /\ after.calls = <<>>
          /\ after.ref_cnt = pre.ref_cnt /\ after.status = pre.status

\* The only handle of a live object gave its reference away.
C9_Witness ==
  /\ last.op = "resetWithoutRelease"
  /\ pre.Obj[last.h] # Null
  /\ HandlesOn(Cur, pre.Obj[last.h]) = {}
  /\ status[pre.Obj[last.h]] = "live" /\ ref_cnt[pre.Obj[last.h]] = 1

\* C10: every == returns true iff the two underlying pointers are the
\* same object identity or both null, whatever the objects' contents and
\* counters; each != is the negation of its ==; equality agrees across
\* the argument orders.
C10_Equality ==
  LET s == Cur
      L == {h \in Handles : live[h]}
  IN /\ \A a \in L :
          /\ EqHN(s, a) <=> (Obj[a] = Null)
          /\ EqNH(s, a) <=> (Obj[a] = Null)
          /\ NeHN(s, a) <=> ~EqHN(s, a)
          /\ NeNH(s, a) <=> ~EqNH(s, a)
          /\ EqHN(s, a) <=> EqNH(s, a)
          /\ EqHN(s, a) <=> EqHP(s, a, Null)
     /\ \A a \in L, b \in L :
          /\ EqHH(s, a, b) <=> (Obj[a] = Obj[b])
          /\ NeHH(s, a, b) <=> ~EqHH(s, a, b)
          /\ EqHH(s, a, b) <=> EqHH(s, b, a)
     /\ \A a \in L, p \in ValidPtrs :
          /\ EqHP(s, a, p) <=> (Obj[a] = p)
          /\ EqPH(s, p, a) <=> (p = Obj[a])
          /\ NeHP(s, a, p) <=> ~EqHP(s, a, p)
          /\ NePH(s, p, a) <=> ~EqPH(s, p, a)
          /\ EqHP(s, a, p) <=> EqPH(s, p, a)

\* Two handles on distinct objects of equal contents and equal counters
\* compare unequal, next to a null handle.
C10_Witness ==
  \E a \in Handles, b \in Handles, c \in Handles :
    /\ live[a] /\ live[b] /\ live[c]
    /\ Obj[a] # Null /\ Obj[b] # Null /\ Obj[a] # Obj[b] /\ Obj[c] = Null
    /\ payload[Obj[a]] = payload[Obj[b]]
    /\ ref_cnt[Obj[a]] = ref_cnt[Obj[b]]
    /\ NeHH(Cur, a, b) /\ EqHN(Cur, c)

\* C11: Release() on an object whose counter is 0 fails the assertion: the
\* program is in the error state, the counter is not decremented, nothing
\* is destroyed, and no error is handed back to the caller.  This is the
\* claim as amended: it holds of builds in which assert() is compiled in.
\* In a build with NDEBUG the call is an ordinary decrement that wraps the
\* counter to 2^w - 1 and destroys nothing.
C11_ReleaseAtZero ==
  (last.op = "Release" /\ pre.ref_cnt[last.ptr] = 0) =>
    /\ ~ndebug =>
         /\ err = "assert"
         /\ ref_cnt = pre.ref_cnt /\ status = pre.status
         /\ dtor_runs = pre.dtor_runs
         /\ calls = <<>>
         /\ ret = Null
    /\ ndebug =>
         /\ err = "none"
         /\ ref_cnt[last.ptr] = CounterMod - 1
         /\ status = pre.status /\ dtor_runs = pre.dtor_runs
         /\ calls = <<Call("Release", last.ptr, 0)>>
    /\ Obj = pre.Obj /\ live = pre.live
    /\ ObjectsUnchanged({last.ptr})

\* Release() was called on an object nobody had retained, in a debug build.
C11_Witness ==
  /\ last.op = "Release" /\ pre.ref_cnt[last.ptr] = 0
  /\ ~ndebug /\ err = "assert"

\* C11 as claimed, for every build: Release() at counter 0 is a fatal
\* assertion failure and never a decrement.
C11_AsClaimed ==
  (last.op = "Release" /\ pre.ref_cnt[last.ptr] = 0) =>
    (err = "assert" /\ ref_cnt = pre.ref_cnt)

\* C12: a counted object starts with counter 0, and so does a
\* copy-constructed one whatever the counter of the object it is copied
\* from; copy construction leaves the source's counter unchanged.
C12_ObjectsStartAtZero ==
  /\ last.op = "new" =>
       /\ pre.status[last.ptr] = "none" /\ status[last.ptr] = "live"
       /\ ref_cnt[last.ptr] = 0
       /\ ObjectsUnchanged({last.ptr})
  /\ last.op = "CopyNew" =>
       /\ pre.status[last.ptr] = "none" /\ status[last.ptr] = "live"
       /\ ref_cnt[last.ptr] = 0
       /\ HandlesOn(Cur, last.ptr) = {}
       /\ ObjectsUnchanged({last.ptr})
       /\ Obj = pre.Obj /\ live = pre.live
       /\ calls = <<>>

\* An object held by two handles was copied: the copy has counter 0.
C12_Witness ==
  /\ last.op = "CopyNew"
  /\ ref_cnt[last.ptr] = 0
  /\ \E src \in Objs :
       /\ src # last.ptr /\ ref_cnt[src] = 2 /\ pre.ref_cnt[src] = 2
       /\ payload[last.ptr] = pre.payload[src]

\* C13: however one host object is copied into another, by copy
\* construction or by assignment to an existing object (*h1 = *h2), the
\* target's counter is not taken from the source: after the copy it is what
\* it was (0 for a new object) and still the number of live handles on
\* the target.
C13_CounterNeverCopied ==
  /\ last.op = "CopyNew" =>
       ref_cnt[last.ptr] = Cardinality(HandlesOn(Cur, last.ptr))
  /\ (/\ last.op = "AssignObj"
      /\ pre.ref_cnt[last.ptr] = Cardinality(HandlesOn(pre, last.ptr))) =>
       /\ ref_cnt[last.ptr] = pre.ref_cnt[last.ptr]
       /\ ref_cnt[last.ptr] = Cardinality(HandlesOn(Cur, last.ptr))

\* Both threads have run one handle operation each, or one thread two,
\* to the end, some store of the counter undid another thread's store, and
\* the program has not stopped.
AfterLostUpdate ==
  /\ Quiescent /\ lost /\ err = "none"
  /\ started = Cardinality(Threads)

\* C14: the counter is not synchronized: each increment and decrement is
\* a load and a separate store, and two threads copying and destroying
\* handles interleave between them.  When an update is lost between two
\* such operations, the counter no longer is the number of live handles:
\* the object is live with a counter that differs from its handle count
\* (with no handle left it is never destroyed: the counter is not 0), or
\* it was destroyed while a live handle references it.  That this happens
\* is C14_Witness (destroyed under a live handle) and C14_Leaked (never
\* destroyed).
C14_LostUpdateBreaksCount ==
  AfterLostUpdate =>
    \A o \in Objs :
      status[o] # "none" =>
        \/ /\ status[o] = "live"
           /\ ref_cnt[o] # Cardinality(HandlesOn(Cur, o))
           /\ HandlesOn(Cur, o) = {} => ref_cnt[o] > 0
        \/ /\ status[o] = "destroyed"
           /\ HandlesOn(Cur, o) # {}

\* One thread copied a handle while the other destroyed one: an update was
\* lost and the object was destroyed while a handle still references it.
C14_Witness ==
  /\ AfterLostUpdate
  /\ \E o \in Objs : status[o] = "destroyed" /\ HandlesOn(Cur, o) # {}

\* Both threads destroyed a handle: an update was lost, every handle is
\* gone and the object is still there.
C14_Leaked ==
  /\ AfterLostUpdate
  /\ \E o \in Objs :
       /\ status[o] = "live" /\ ref_cnt[o] > 0
       /\ \A h \in Handles : ~live[h]

\* No update was lost and delete ran twice on the object: two handle
\* destructions both found the counter at 0 after their stores.
C14_DeletedTwice ==
  /\ Quiescent /\ ~lost /\ err = "none"
  /\ \E o \in Objs : dtor_runs[o] = 2

\* No update was lost, nothing stopped the program, and a live handle
\* references a deleted object: a copy loaded the counter between the
\* store and the `== 0` test of a destruction.
C14_DanglingWithoutLoss ==
  /\ Quiescent /\ ~lost /\ err = "none"
  /\ \E o \in Objs : status[o] = "destroyed" /\ HandlesOn(Cur, o) # {}

\* C15: get(), bool conversion, operator*, operator-> and every comparison
\* operator leave all handles, all counters and all objects as they were
\* and call neither Retain nor Release; get() returns the stored pointer
\* (Null for a null handle) and bool conversion is true exactly for a
\* non-null handle.
C15_ObserversChangeNothing ==
  last.op \in ObserverOps =>
    /\ SameState(pre, Cur)
    /\ calls = <<>>
    /\ last.op = "get" => ret = pre.Obj[last.h]
    /\ last.op = "bool" => (ret <=> pre.Obj[last.h] # Null)
    /\ last.op \in {"Star", "Arrow"} => ret = pre.Obj[last.h]

\* get() on a handle that shares its object with another handle.
C15_Witness ==
  /\ last.op = "get"
  /\ Obj[last.h] # Null /\ ret = Obj[last.h]
  /\ ref_cnt[Obj[last.h]] = 2 /\ status[Obj[last.h]] = "live"

\* The positions of the calls of fn in the recorded operation's call log.
CallsOf(fn) == {i \in DOMAIN calls : calls[i].fn = fn}

\* The recorded operation assigns to a handle the object it already holds:
\* h = h, h = a with a on the same object, or h = std::move(h).
SameObjectAssign ==
  /\ pre.Obj[last.h] # Null
  /\ \/ last.op = "CopyAssign" /\ pre.Obj[last.src] = pre.Obj[last.h]
     \/ last.op = "MoveAssign" /\ last.src = last.h

\* C16: within operator= every Retain (it is on the right-hand side's
\* object) comes before every Release (it is on the object the target
\* held).  In a self-assignment, an assignment between two handles on the
\* same object and a move-self-assignment, no Release finds the counter
\* at 1 (so it is never 0 in between), nothing is deleted, and the
\* object's counter and the target's pointer end as they started.
C16_RetainBeforeRelease ==
  /\ last.op \in {"CopyAssign", "MoveAssign", "RawAssign"} =>
       /\ \A i \in CallsOf("Retain"), j \in CallsOf("Release") : i < j
       /\ \A i \in CallsOf("Retain") :
            calls[i].obj = (IF last.op = "RawAssign" THEN last.ptr
                            ELSE pre.Obj[last.src])
       /\ \A j \in CallsOf("Release") : calls[j].obj = pre.Obj[last.h]
  /\ SameObjectAssign =>
       LET o == pre.Obj[last.h]
       IN /\ err = "none"
          /\ \A j \in CallsOf("Release") : calls[j].cnt >= 2
          /\ CallsOf("delete") = {}
          /\ status[o] = "live" /\ dtor_runs[o] = pre.dtor_runs[o]
          /\ ref_cnt[o] = pre.ref_cnt[o]
          /\ Obj[last.h] = o
          /\ OthersUnchanged({}) /\ ObjectsUnchanged({})

\* h = h on the only handle of its object: the counter goes 1, 2, 1.
C16_Witness ==
  /\ last.op = "CopyAssign" /\ last.src = last.h
  /\ pre.Obj[last.h] # Null /\ pre.ref_cnt[pre.Obj[last.h]] = 1
  /\ Len(calls) = 2 /\ calls[1].fn = "Retain" /\ calls[2].fn = "Release"
  /\ ref_cnt[Obj[last.h]] = 1

\* C17: under handle operations only, resetWithoutRelease included, no
\* Release is ever called on an object whose counter is 0 or that was
\* already destroyed: the assertion ref_cnt > 0 never fails and no
\* destroyed object is touched.
C17_ReleaseNeverAtZero ==
  /\ err = "none"
  /\ \A j \in CallsOf("Release") :
       calls[j].cnt > 0 /\ pre.status[calls[j].obj] = "live"

\* A handle is destroyed after another handle of the same object gave its
\* reference away: Release finds the counter at 2 and the object stays.
C17_Witness ==
  /\ last.op = "Dtor"
  /\ Len(calls) = 1 /\ calls[1].fn = "Release" /\ calls[1].cnt = 2
  /\ HandlesOn(Cur, calls[1].obj) = {}
  /\ status[calls[1].obj] = "live" /\ ref_cnt[calls[1].obj] = 1

\* The references of live object o that no live handle accounts for.
Excess(s, o) ==
  IF s.status[o] = "live"
  THEN s.ref_cnt[o] - Cardinality(HandlesOn(s, o)) ELSE 0

\* After p = h.get(); h.resetWithoutRelease() on a non-null h, one
\* Release on p gives the state h.reset() gives.
RoundTripIsReset ==
  (last.op = "resetWithoutRelease" /\ pre.Obj[last.h] # Null) =>
    SameState(Release(Cur, get(pre, last.h)), reset(pre, last.h))

\* An object with a reference given away and not released is, after any
\* handle operation, still live with counter at least 1, and that
\* reference is still unaccounted for.
LeakedStaysLive ==
  \A o \in Objs :
    Excess(pre, o) >= 1 =>
      /\ status[o] = "live" /\ ref_cnt[o] >= 1
      /\ Excess(Cur, o) >= Excess(pre, o)

\* C18: for a non-null handle h, p = h.get(); h.resetWithoutRelease();
\* then Release on p once leaves every handle, every counter and every
\* object's status as h.reset() does; and while that Release is not made
\* the object is never destroyed, whatever is done with the remaining
\* handles: its counter stays at least 1.
C18_HandoffRoundTrip == RoundTripIsReset /\ LeakedStaysLive

\* The only handle of an object gave its reference away: reset() would
\* have destroyed the object, and so does the one Release on p.
C18_Witness ==
  /\ last.op = "resetWithoutRelease"
  /\ pre.Obj[last.h] # Null /\ pre.ref_cnt[pre.Obj[last.h]] = 1
  /\ Release(Cur, get(pre, last.h)).status[pre.Obj[last.h]] = "destroyed"
  /\ reset(pre, last.h).status[pre.Obj[last.h]] = "destroyed"
  /\ Excess(Cur, pre.Obj[last.h]) = 1

\* The recorded operation is a Retain that found the counter at 2^w - 1.
RetainAtMax ==
  last.op = "Retain" /\ pre.ref_cnt[last.ptr] = CounterMod - 1

\* What Retain does to the counter: +1 below 2^w - 1, and from 2^w - 1 to
\* 0 with nothing destroyed; with a live handle on the object the counter
\* then differs from the number of live handles.
RetainWraps ==
  last.op = "Retain" =>
    LET o == last.ptr
    IN /\ err = "none" /\ status = pre.status /\ dtor_runs = pre.dtor_runs
       /\ Obj = pre.Obj /\ live = pre.live
       /\ ObjectsUnchanged({o})
       /\ pre.ref_cnt[o] < CounterMod - 1 => ref_cnt[o] = pre.ref_cnt[o] + 1
       /\ pre.ref_cnt[o] = CounterMod - 1 =>
            /\ ref_cnt[o] = 0
            /\ HandlesOn(Cur, o) # {} =>
                 ref_cnt[o] # Cardinality(HandlesOn(Cur, o))

\* C19: the counter has a fixed width w and Retain does not check for
\* overflow: it adds 1 below 2^w - 1 and wraps from 2^w - 1 to 0 without
\* destroying the object, after which the counter is not the number of
\* live handles.  This is the claim as amended: the next handle
\* destruction calls Release with the counter at 0, which fails the
\* assertion in a build in which assert() is compiled in, and in a build
\* with NDEBUG wraps the counter back to 2^w - 1 and destroys nothing.
C19_RetainWraps ==
  /\ RetainWraps
  /\ RetainAtMax =>
       \A h \in HandlesOn(Cur, last.ptr) :
         LET after == Dtor(Cur, h)
         IN /\ ~ndebug => after.err = "assert"
            /\ ndebug =>
                 /\ after.err = "none"
                 /\ after.ref_cnt[last.ptr] = CounterMod - 1
                 /\ after.status[last.ptr] = "live"

\* The counter wrapped to 0 under a live handle, in a debug build: the
\* handle's destruction fails the assertion.
C19_Witness ==
  /\ RetainAtMax /\ ref_cnt[last.ptr] = 0 /\ status[last.ptr] = "live"
  /\ ~ndebug
  /\ \E h \in HandlesOn(Cur, last.ptr) : Dtor(Cur, h).err = "assert"

\* C19 as claimed, for every build: after the wrap the next handle
\* destruction fails the Release assertion.
C19_AsClaimed ==
  /\ RetainWraps
  /\ RetainAtMax =>
       \A h \in HandlesOn(Cur, last.ptr) : Dtor(Cur, h).err = "assert"
====
